---- MODULE Spec2Model ----
(***************************************************************************)
(* Model of src/index.ts ("Lightning Talk: Array Operators").              *)
(*                                                                         *)
(* The file holds four tasks, each written twice (an imperative loop and   *)
(* a declarative map / filter / reduce chain), and a top-level reduce with *)
(* an initial value.  One behaviour of the model is one task applied to    *)
(* one input: the imperative and the declarative variant both run on the   *)
(* same input, one loop iteration (one callback call) per step, in any     *)
(* interleaving.                                                           *)
(*                                                                         *)
(* Representation of JavaScript values                                     *)
(*  - the strings that are upper-cased and prefix-tested are sequences of  *)
(*    UTF-16 code units (120 is "x", 88 is "X", 223 is the sharp s);       *)
(*  - property keys are TLA+ strings;                                      *)
(*  - a property value is a record [type, num, str]: a number, a string,   *)
(*    undefined, a reference to an array of the heap (num is its address), *)
(*    or a value every object literal inherits from Object.prototype (a    *)
(*    built-in function, or Object.prototype itself under __proto__);      *)
(*  - an object is a function from its own keys to property values.        *)
(***************************************************************************)
EXTENDS Integers, Sequences, FiniteSets, TLC

VARIABLES
    task,        \* which function of index.ts is applied
    input,       \* the argument array (array / discounts / orders)
    impPc,       \* imperative variant: "loop", "done", "threw" ("none": no such variant)
    impI,        \* imperative variant: elements of input consumed by the for-of loop
    impResult,   \* imperative variant: the local `result`
    decPc,       \* declarative variant: "filter", "map", "reduce", "done", "threw"
    decI,        \* declarative variant: elements consumed by the running array operator
    decFiltered, \* declarative variant: the array filter() is building / has returned
    decAcc,      \* declarative variant: array map() is building, or reduce's previousValue
    trace,       \* values returned by the reducer of the top-level reduce so far
    heap         \* the arrays created by [code] and concat(code): address -> contents

vars == <<task, input, impPc, impI, impResult, decPc, decI, decFiltered, decAcc, trace, heap>>

\* Largest length of a generated input array.
MaxLen == 3

BoundedSeq(S) == UNION {[1..n -> S] : n \in 0..MaxLen}

-----------------------------------------------------------------------------
(* Strings as sequences of UTF-16 code units.                              *)

\* The simple case mappings of the Unicode Character Database that change a
\* code point, in version 17.0, the version of the engine the code was run
\* on: <<first, last, step, delta>> says that the code
\* points first, first + step, ..., last have the upper case cp + delta.
SimpleUpper ==
    { <<97, 122, 1, -32>>, <<181, 181, 1, 743>>, <<224, 246, 1, -32>>,
      <<248, 254, 1, -32>>, <<255, 255, 1, 121>>, <<257, 303, 2, -1>>,
      <<305, 305, 1, -232>>, <<307, 311, 2, -1>>, <<314, 328, 2, -1>>, <<331, 375, 2, -1>>,
      <<378, 382, 2, -1>>, <<383, 383, 1, -300>>, <<384, 384, 1, 195>>,
      <<387, 389, 2, -1>>, <<392, 392, 1, -1>>, <<396, 396, 1, -1>>, <<402, 402, 1, -1>>,
      <<405, 405, 1, 97>>, <<409, 409, 1, -1>>, <<410, 410, 1, 163>>,
      <<411, 411, 1, 42561>>, <<414, 414, 1, 130>>, <<417, 421, 2, -1>>,
      <<424, 424, 1, -1>>, <<429, 429, 1, -1>>, <<432, 432, 1, -1>>, <<436, 438, 2, -1>>,
      <<441, 441, 1, -1>>, <<445, 445, 1, -1>>, <<447, 447, 1, 56>>, <<453, 453, 1, -1>>,
      <<454, 454, 1, -2>>, <<456, 456, 1, -1>>, <<457, 457, 1, -2>>, <<459, 459, 1, -1>>,
      <<460, 460, 1, -2>>, <<462, 476, 2, -1>>, <<477, 477, 1, -79>>, <<479, 495, 2, -1>>,
      <<498, 498, 1, -1>>, <<499, 499, 1, -2>>, <<501, 501, 1, -1>>, <<505, 543, 2, -1>>,
      <<547, 563, 2, -1>>, <<572, 572, 1, -1>>, <<575, 576, 1, 10815>>,
      <<578, 578, 1, -1>>, <<583, 591, 2, -1>>, <<592, 592, 1, 10783>>,
      <<593, 593, 1, 10780>>, <<594, 594, 1, 10782>>, <<595, 595, 1, -210>>,
      <<596, 596, 1, -206>>, <<598, 599, 1, -205>>, <<601, 601, 1, -202>>,
      <<603, 603, 1, -203>>, <<604, 604, 1, 42319>>, <<608, 608, 1, -205>>,
      <<609, 609, 1, 42315>>, <<611, 611, 1, -207>>, <<612, 612, 1, 42343>>,
      <<613, 613, 1, 42280>>, <<614, 614, 1, 42308>>, <<616, 616, 1, -209>>,
      <<617, 617, 1, -211>>, <<618, 618, 1, 42308>>, <<619, 619, 1, 10743>>,
      <<620, 620, 1, 42305>>, <<623, 623, 1, -211>>, <<625, 625, 1, 10749>>,
      <<626, 626, 1, -213>>, <<629, 629, 1, -214>>, <<637, 637, 1, 10727>>,
      <<640, 640, 1, -218>>, <<642, 642, 1, 42307>>, <<643, 643, 1, -218>>,
      <<647, 647, 1, 42282>>, <<648, 648, 1, -218>>, <<649, 649, 1, -69>>,
      <<650, 651, 1, -217>>, <<652, 652, 1, -71>>, <<658, 658, 1, -219>>,
      <<669, 669, 1, 42261>>, <<670, 670, 1, 42258>>, <<837, 837, 1, 84>>,
      <<881, 883, 2, -1>>, <<887, 887, 1, -1>>, <<891, 893, 1, 130>>, <<940, 940, 1, -38>>,
      <<941, 943, 1, -37>>, <<945, 961, 1, -32>>, <<962, 962, 1, -31>>,
      <<963, 971, 1, -32>>, <<972, 972, 1, -64>>, <<973, 974, 1, -63>>,
      <<976, 976, 1, -62>>, <<977, 977, 1, -57>>, <<981, 981, 1, -47>>,
      <<982, 982, 1, -54>>, <<983, 983, 1, -8>>, <<985, 1007, 2, -1>>,
      <<1008, 1008, 1, -86>>, <<1009, 1009, 1, -80>>, <<1010, 1010, 1, 7>>,
      <<1011, 1011, 1, -116>>, <<1013, 1013, 1, -96>>, <<1016, 1016, 1, -1>>,
      <<1019, 1019, 1, -1>>, <<1072, 1103, 1, -32>>, <<1104, 1119, 1, -80>>,
      <<1121, 1153, 2, -1>>, <<1163, 1215, 2, -1>>, <<1218, 1230, 2, -1>>,
      <<1231, 1231, 1, -15>>, <<1233, 1327, 2, -1>>, <<1377, 1414, 1, -48>>,
      <<4304, 4346, 1, 3008>>, <<4349, 4351, 1, 3008>>, <<5112, 5117, 1, -8>>,
      <<7296, 7296, 1, -6254>>, <<7297, 7297, 1, -6253>>, <<7298, 7298, 1, -6244>>,
      <<7299, 7300, 1, -6242>>, <<7301, 7301, 1, -6243>>, <<7302, 7302, 1, -6236>>,
      <<7303, 7303, 1, -6181>>, <<7304, 7304, 1, 35266>>, <<7306, 7306, 1, -1>>,
      <<7545, 7545, 1, 35332>>, <<7549, 7549, 1, 3814>>, <<7566, 7566, 1, 35384>>,
      <<7681, 7829, 2, -1>>, <<7835, 7835, 1, -59>>, <<7841, 7935, 2, -1>>,
      <<7936, 7943, 1, 8>>, <<7952, 7957, 1, 8>>, <<7968, 7975, 1, 8>>,
      <<7984, 7991, 1, 8>>, <<8000, 8005, 1, 8>>, <<8017, 8023, 2, 8>>,
      <<8032, 8039, 1, 8>>, <<8048, 8049, 1, 74>>, <<8050, 8053, 1, 86>>,
      <<8054, 8055, 1, 100>>, <<8056, 8057, 1, 128>>, <<8058, 8059, 1, 112>>,
      <<8060, 8061, 1, 126>>, <<8112, 8113, 1, 8>>, <<8126, 8126, 1, -7205>>,
      <<8144, 8145, 1, 8>>, <<8160, 8161, 1, 8>>, <<8165, 8165, 1, 7>>,
      <<8526, 8526, 1, -28>>, <<8560, 8575, 1, -16>>, <<8580, 8580, 1, -1>>,
      <<9424, 9449, 1, -26>>, <<11312, 11359, 1, -48>>, <<11361, 11361, 1, -1>>,
      <<11365, 11365, 1, -10795>>, <<11366, 11366, 1, -10792>>, <<11368, 11372, 2, -1>>,
      <<11379, 11379, 1, -1>>, <<11382, 11382, 1, -1>>, <<11393, 11491, 2, -1>>,
      <<11500, 11502, 2, -1>>, <<11507, 11507, 1, -1>>, <<11520, 11557, 1, -7264>>,
      <<11559, 11559, 1, -7264>>, <<11565, 11565, 1, -7264>>, <<42561, 42605, 2, -1>>,
      <<42625, 42651, 2, -1>>, <<42787, 42799, 2, -1>>, <<42803, 42863, 2, -1>>,
      <<42874, 42876, 2, -1>>, <<42879, 42887, 2, -1>>, <<42892, 42892, 1, -1>>,
      <<42897, 42899, 2, -1>>, <<42900, 42900, 1, 48>>, <<42903, 42921, 2, -1>>,
      <<42933, 42947, 2, -1>>, <<42952, 42954, 2, -1>>, <<42957, 42971, 2, -1>>,
      <<42998, 42998, 1, -1>>, <<43859, 43859, 1, -928>>, <<43888, 43967, 1, -38864>>,
      <<65345, 65370, 1, -32>>, <<66600, 66639, 1, -40>>, <<66776, 66811, 1, -40>>,
      <<66967, 67003, 2, -39>>, <<66968, 66976, 2, -39>>, <<66980, 66992, 2, -39>>,
      <<66996, 67000, 2, -39>>, <<67004, 67004, 1, -39>>, <<68800, 68850, 1, -64>>,
      <<68976, 68997, 1, -32>>, <<71872, 71903, 1, -32>>, <<93792, 93823, 1, -32>>,
      <<93883, 93907, 1, -27>>, <<125218, 125251, 1, -34>> }

\* The unconditional full mappings (SpecialCasing.txt and the like) whose
\* upper case is more than one code point: <<cp, upper case>>.
SpecialUpper ==
    { <<223, <<83, 83>>>>, <<329, <<700, 78>>>>, <<496, <<74, 780>>>>,
      <<912, <<921, 776, 769>>>>, <<944, <<933, 776, 769>>>>, <<1415, <<1333, 1362>>>>,
      <<7830, <<72, 817>>>>, <<7831, <<84, 776>>>>, <<7832, <<87, 778>>>>,
      <<7833, <<89, 778>>>>, <<7834, <<65, 702>>>>, <<8016, <<933, 787>>>>,
      <<8018, <<933, 787, 768>>>>, <<8020, <<933, 787, 769>>>>,
      <<8022, <<933, 787, 834>>>>, <<8064, <<7944, 921>>>>, <<8065, <<7945, 921>>>>,
      <<8066, <<7946, 921>>>>, <<8067, <<7947, 921>>>>, <<8068, <<7948, 921>>>>,
      <<8069, <<7949, 921>>>>, <<8070, <<7950, 921>>>>, <<8071, <<7951, 921>>>>,
      <<8072, <<7944, 921>>>>, <<8073, <<7945, 921>>>>, <<8074, <<7946, 921>>>>,
      <<8075, <<7947, 921>>>>, <<8076, <<7948, 921>>>>, <<8077, <<7949, 921>>>>,
      <<8078, <<7950, 921>>>>, <<8079, <<7951, 921>>>>, <<8080, <<7976, 921>>>>,
      <<8081, <<7977, 921>>>>, <<8082, <<7978, 921>>>>, <<8083, <<7979, 921>>>>,
      <<8084, <<7980, 921>>>>, <<8085, <<7981, 921>>>>, <<8086, <<7982, 921>>>>,
      <<8087, <<7983, 921>>>>, <<8088, <<7976, 921>>>>, <<8089, <<7977, 921>>>>,
      <<8090, <<7978, 921>>>>, <<8091, <<7979, 921>>>>, <<8092, <<7980, 921>>>>,
      <<8093, <<7981, 921>>>>, <<8094, <<7982, 921>>>>, <<8095, <<7983, 921>>>>,
      <<8096, <<8040, 921>>>>, <<8097, <<8041, 921>>>>, <<8098, <<8042, 921>>>>,
      <<8099, <<8043, 921>>>>, <<8100, <<8044, 921>>>>, <<8101, <<8045, 921>>>>,
      <<8102, <<8046, 921>>>>, <<8103, <<8047, 921>>>>, <<8104, <<8040, 921>>>>,
      <<8105, <<8041, 921>>>>, <<8106, <<8042, 921>>>>, <<8107, <<8043, 921>>>>,
      <<8108, <<8044, 921>>>>, <<8109, <<8045, 921>>>>, <<8110, <<8046, 921>>>>,
      <<8111, <<8047, 921>>>>, <<8114, <<8122, 921>>>>, <<8115, <<913, 921>>>>,
      <<8116, <<902, 921>>>>, <<8118, <<913, 834>>>>, <<8119, <<913, 834, 921>>>>,
      <<8124, <<913, 921>>>>, <<8130, <<8138, 921>>>>, <<8131, <<919, 921>>>>,
      <<8132, <<905, 921>>>>, <<8134, <<919, 834>>>>, <<8135, <<919, 834, 921>>>>,
      <<8140, <<919, 921>>>>, <<8146, <<921, 776, 768>>>>, <<8147, <<921, 776, 769>>>>,
      <<8150, <<921, 834>>>>, <<8151, <<921, 776, 834>>>>, <<8162, <<933, 776, 768>>>>,
      <<8163, <<933, 776, 769>>>>, <<8164, <<929, 787>>>>, <<8166, <<933, 834>>>>,
      <<8167, <<933, 776, 834>>>>, <<8178, <<8186, 921>>>>, <<8179, <<937, 921>>>>,
      <<8180, <<911, 921>>>>, <<8182, <<937, 834>>>>, <<8183, <<937, 834, 921>>>>,
      <<8188, <<937, 921>>>>, <<64256, <<70, 70>>>>, <<64257, <<70, 73>>>>,
      <<64258, <<70, 76>>>>, <<64259, <<70, 70, 73>>>>, <<64260, <<70, 70, 76>>>>,
      <<64261, <<83, 84>>>>, <<64262, <<83, 84>>>>, <<64275, <<1348, 1350>>>>,
      <<64276, <<1348, 1333>>>>, <<64277, <<1348, 1339>>>>, <<64278, <<1358, 1350>>>>,
      <<64279, <<1348, 1341>>>> }

SpecialUpperPoints == {e[1] : e \in SpecialUpper}

\* The upper case of one code point, as a sequence of code points.
UpperCodePoint(cp) ==
    IF cp \in SpecialUpperPoints
    THEN (CHOOSE e \in SpecialUpper : e[1] = cp)[2]
    ELSE LET hit == {r \in SimpleUpper : cp >= r[1] /\ cp <= r[2] /\ (cp - r[1]) % r[3] = 0}
         IN IF hit = {} THEN <<cp>> ELSE <<cp + (CHOOSE r \in hit : TRUE)[4]>>

IsHighSurrogate(u) == u >= 55296 /\ u <= 56319
IsLowSurrogate(u) == u >= 56320 /\ u <= 57343

\* A code point as UTF-16 code units.
EncodeUtf16(cp) ==
    IF cp < 65536 THEN <<cp>>
    ELSE <<55296 + ((cp - 65536) \div 1024), 56320 + ((cp - 65536) % 1024)>>

RECURSIVE EncodeAll(_)
EncodeAll(cps) ==
    IF cps = <<>> THEN <<>> ELSE EncodeUtf16(Head(cps)) \o EncodeAll(Tail(cps))

\* String.prototype.toUpperCase: the string is read code point by code point
\* (a high surrogate followed by a low one is one code point, any other unit
\* stands for itself), and each code point is replaced by its upper case.
RECURSIVE ToUpperCase(_)
ToUpperCase(s) ==
    IF s = <<>> THEN <<>>
    ELSE IF Len(s) >= 2 /\ IsHighSurrogate(s[1]) /\ IsLowSurrogate(s[2])
    THEN EncodeAll(UpperCodePoint(65536 + (s[1] - 55296) * 1024 + (s[2] - 56320)))
             \o ToUpperCase(SubSeq(s, 3, Len(s)))
    ELSE EncodeAll(UpperCodePoint(s[1])) \o ToUpperCase(Tail(s))

\* String.prototype.startsWith(prefix)
StartsWith(s, prefix) ==
    /\ Len(s) >= Len(prefix)
    /\ SubSeq(s, 1, Len(prefix)) = prefix

\* The literal "x" of lines 115 and 127.
PrefixX == <<120>>

\* Array.prototype.push on a local array.
ArrayPush(arr, element) == Append(arr, element)

\* Faulty variants of the two callbacks below (the conversion forgotten,
\* the test inverted), against which the properties are tried.
MapCallbackIdentity(element) == element

FilterCallbackNegated(element) == ~StartsWith(element, PrefixX)

\* (element) => element.toUpperCase()
MapCallback(element) == ToUpperCase(element)

\* (element) => element.startsWith("x")
FilterCallback(element) == StartsWith(element, PrefixX)

-----------------------------------------------------------------------------
(* JavaScript property values.                                             *)

Num(n) == [type |-> "number", num |-> n, str |-> ""]
Str(s) == [type |-> "string", num |-> 0, str |-> s]
ArrayRef(a) == [type |-> "array", num |-> a, str |-> ""]
Undefined == [type |-> "undefined", num |-> 0, str |-> "undefined"]

Digit == <<"0", "1", "2", "3", "4", "5", "6", "7", "8", "9">>

RECURSIVE NumToString(_)
NumToString(n) ==
    IF n < 10 THEN Digit[n + 1]
    ELSE NumToString(n \div 10) \o Digit[(n % 10) + 1]

\* ToString of a value that `+` meets in this file.
JsToString(v) == IF v.type = "number" THEN NumToString(v.num) ELSE v.str

\* The binary `+`: numeric addition of two numbers, otherwise the
\* concatenation of the operands' string forms.
JsAdd(a, b) ==
    IF a.type = "number" /\ b.type = "number"
    THEN Num(a.num + b.num)
    ELSE Str(JsToString(a) \o JsToString(b))

\* a ?? b
Coalesce(a, b) == IF a.type = "undefined" THEN b ELSE a

\* The string-keyed properties an object created by {} inherits from
\* Object.prototype: eleven built-in functions and the accessor __proto__.
InheritedFunctions ==
    {"constructor", "toString", "valueOf", "hasOwnProperty", "isPrototypeOf",
     "propertyIsEnumerable", "toLocaleString", "__defineGetter__",
     "__defineSetter__", "__lookupGetter__", "__lookupSetter__"}

\* The name property of the inherited function under key k.
FunctionName(k) == IF k = "constructor" THEN "Object" ELSE k

\* Object.prototype as seen through a property read: each built-in function
\* (str is its string form), and under __proto__ what the getter yields,
\* Object.prototype itself.
ObjectPrototype ==
    [k \in InheritedFunctions \cup {"__proto__"} |->
        IF k = "__proto__"
        THEN [type |-> "object", num |-> 0, str |-> "[object Object]"]
        ELSE [type |-> "function", num |-> 0,
              str |-> "function " \o FunctionName(k) \o "() { [native code] }"]]

\* {}
EmptyObject == [k \in {} |-> Undefined]

\* obj[key]: the own property, else the inherited one, else undefined.
Get(obj, key) ==
    IF key \in DOMAIN obj THEN obj[key]
    ELSE IF key \in DOMAIN ObjectPrototype THEN ObjectPrototype[key]
    ELSE Undefined

\* Faulty variant of DefineOwn: the spread of obj forgotten.
DefineOwnWithoutSpread(obj, key, v) == [k \in {key} |-> v]

\* CreateDataProperty: what { ...obj, [key]: v } does with key after it has
\* copied the own properties of obj.  A computed key is always an own
\* property, "__proto__" included.
DefineOwn(obj, key, v) ==
    [k \in (DOMAIN obj) \cup {key} |-> IF k = key THEN v ELSE obj[k]]

\* obj[key] = v on an object created by {}.  The key "__proto__" reaches the
\* inherited setter, which ignores a value that is neither an object nor
\* null (the only values these functions ever assign under that key are
\* strings); every other key becomes, or updates, an own property.
PutValue(obj, key, v) ==
    IF key = "__proto__" /\ key \notin DOMAIN obj /\ v.type \in {"number", "string"}
    THEN obj
    ELSE DefineOwn(obj, key, v)

-----------------------------------------------------------------------------
(* The heap of arrays built by groupData.                                  *)

\* [code]
ArrayLiteral(h, code) ==
    [threw |-> FALSE, heap |-> Append(h, <<code>>), value |-> ArrayRef(Len(h) + 1)]

\* Faulty variant of ArrayConcat: push in place, the same array handed back.
ArrayConcatInPlace(h, a, code) ==
    [threw |-> FALSE, heap |-> [h EXCEPT ![a] = Append(@, code)], value |-> ArrayRef(a)]

\* heap[a].concat(code): a new array, the receiver untouched.
ArrayConcat(h, a, code) ==
    [threw |-> FALSE, heap |-> Append(h, h[a] \o <<code>>), value |-> ArrayRef(Len(h) + 1)]

\* Faulty variant of GroupValue: always a new one-element array.
GroupValueOverwrite(h, grouped, discount, code) == ArrayLiteral(h, code)

\* grouped[discount]?.concat(code) ?? [code]
\* The optional chain stops only on undefined / null.  Any other receiver
\* has its concat property called: an array's builds a new array, the
\* inherited function and object have none, and calling undefined throws
\* a TypeError.
GroupValue(h, grouped, discount, code) ==
    LET cur == Get(grouped, discount) IN
    IF cur.type = "undefined" THEN ArrayLiteral(h, code)
    ELSE IF cur.type = "array" THEN ArrayConcat(h, cur.num, code)
    ELSE [threw |-> TRUE, heap |-> h, value |-> Undefined]

\* (counts[code] ?? 0) + 1
CountValue(counts, code) == JsAdd(Coalesce(Get(counts, code), Num(0)), Num(1))

\* (previousValue, currentValue) => previousValue + currentValue
Reducer(previousValue, currentValue) == JsAdd(previousValue, currentValue)

\* An object with every array reference replaced by the array's contents.
Deref(h, obj) ==
    [k \in DOMAIN obj |-> IF obj[k].type = "array" THEN h[obj[k].num] ELSE obj[k]]

-----------------------------------------------------------------------------
(* Inputs.                                                                 *)

Tasks == {"transformData", "transformAndFilterData", "groupData", "count", "reduceInitial"}

\* "", "x", "y", "yx", "X", "x" and the sharp s, a-umlaut and "x",
\* "x" and U+10428 (a surrogate pair)
SampleStrings ==
    {<<>>, <<120>>, <<121>>, <<121, 120>>, <<88>>, <<120, 223>>,
     <<228, 120>>, <<120, 55297, 56360>>}

SampleDiscounts == [code : {"A", "B"}, discount : {"1", "2", "constructor", "toString"}]

SampleOrders == [order : {"o1", "o2"}, code : {"A", "B", "constructor", "__proto__"}]

\* ["x", "y", "z"], lines 91 and 109
XyzInput == << <<120>>, <<121>>, <<122>> >>

\* The records of lines 133-139.
GroupExampleInput ==
    << [code |-> "A", discount |-> "1"], [code |-> "B", discount |-> "2"],
       [code |-> "C", discount |-> "1"], [code |-> "E", discount |-> "2"],
       [code |-> "F", discount |-> "1"] >>

\* The records of lines 169-175.
CountExampleInput ==
    << [order |-> "ASDF-123456", code |-> "A"], [order |-> "ASDF-123457", code |-> "B"],
       [order |-> "ASDF-123458", code |-> "B"], [order |-> "ASDF-123459", code |-> "A"],
       [order |-> "ASDF-123451", code |-> "B"] >>

\* ["1", "2", "3", "4"], line 74
ReduceExampleInput == <<Str("1"), Str("2"), Str("3"), Str("4")>>

Inputs(t) ==
    CASE t = "transformData" -> BoundedSeq(SampleStrings) \cup {XyzInput}
      [] t = "transformAndFilterData" -> BoundedSeq(SampleStrings) \cup {XyzInput}
      [] t = "groupData" -> BoundedSeq(SampleDiscounts) \cup {GroupExampleInput}
      [] t = "count" -> BoundedSeq(SampleOrders) \cup {CountExampleInput}
      [] t = "reduceInitial" -> BoundedSeq({Str("1"), Str("2")}) \cup {ReduceExampleInput}

IsArrayTask == task \in {"transformData", "transformAndFilterData"}

Init ==
    /\ task \in Tasks
    /\ input \in Inputs(task)
    /\ impPc = IF task = "reduceInitial" THEN "none" ELSE "loop"
    /\ impI = 0
    /\ impResult = IF IsArrayTask THEN <<>> ELSE EmptyObject
    /\ decPc = CASE task = "transformData" -> "map"
                 [] task = "transformAndFilterData" -> "filter"
                 [] OTHER -> "reduce"
    /\ decI = 0
    /\ decFiltered = <<>>
    /\ decAcc = CASE IsArrayTask -> <<>>
                  [] task = "reduceInitial" -> Str("")
                  [] OTHER -> EmptyObject
    /\ trace = <<>>
    /\ heap = <<>>

-----------------------------------------------------------------------------
(* Imperative variants.                                                    *)

\* transformData.imperative, one iteration of the for-of loop
ImpTransformStep ==
    /\ task = "transformData" /\ impPc = "loop" /\ impI < Len(input)
    /\ impResult' = ArrayPush(impResult, ToUpperCase(input[impI + 1]))
    /\ impI' = impI + 1
    /\ UNCHANGED <<task, input, impPc, decPc, decI, decFiltered, decAcc, trace, heap>>

\* transformAndFilterData.imperative, one iteration (continue or push)
ImpFilterStep ==
    /\ task = "transformAndFilterData" /\ impPc = "loop" /\ impI < Len(input)
    /\ impResult' = IF ~StartsWith(input[impI + 1], PrefixX)
                    THEN impResult
                    ELSE ArrayPush(impResult, ToUpperCase(input[impI + 1]))
    /\ impI' = impI + 1
    /\ UNCHANGED <<task, input, impPc, decPc, decI, decFiltered, decAcc, trace, heap>>

\* groupData.imperative, one iteration
ImpGroupStep ==
    /\ task = "groupData" /\ impPc = "loop" /\ impI < Len(input)
    /\ LET rec == input[impI + 1]
           r == GroupValue(heap, impResult, rec.discount, rec.code)
       IN IF r.threw
          THEN /\ impPc' = "threw"
               /\ UNCHANGED <<impI, impResult, heap>>
          ELSE /\ impResult' = PutValue(impResult, rec.discount, r.value)
               /\ heap' = r.heap
               /\ impI' = impI + 1
               /\ UNCHANGED impPc
    /\ UNCHANGED <<task, input, decPc, decI, decFiltered, decAcc, trace>>

\* count.imperative, one iteration
ImpCountStep ==
    /\ task = "count" /\ impPc = "loop" /\ impI < Len(input)
    /\ LET code == input[impI + 1].code
       IN impResult' = PutValue(impResult, code, CountValue(impResult, code))
    /\ impI' = impI + 1
    /\ UNCHANGED <<task, input, impPc, decPc, decI, decFiltered, decAcc, trace, heap>>

\* the loop is exhausted: return result
ImpReturn ==
    /\ impPc = "loop" /\ impI = Len(input)
    /\ impPc' = "done"
    /\ UNCHANGED <<task, input, impI, impResult, decPc, decI, decFiltered, decAcc, trace, heap>>

-----------------------------------------------------------------------------
(* Declarative variants.                                                   *)

\* the array map() runs over: the argument, or what filter() returned
MapSource == IF task = "transformData" THEN input ELSE decFiltered

\* array.filter(callback), one element
DecFilterStep ==
    /\ task = "transformAndFilterData" /\ decPc = "filter" /\ decI < Len(input)
    /\ decFiltered' = IF FilterCallback(input[decI + 1])
                      THEN Append(decFiltered, input[decI + 1])
                      ELSE decFiltered
    /\ decI' = decI + 1
    /\ UNCHANGED <<task, input, impPc, impI, impResult, decPc, decAcc, trace, heap>>

\* filter() returns; map() starts on its result
DecFilterReturn ==
    /\ task = "transformAndFilterData" /\ decPc = "filter" /\ decI = Len(input)
    /\ decPc' = "map"
    /\ decI' = 0
    /\ UNCHANGED <<task, input, impPc, impI, impResult, decFiltered, decAcc, trace, heap>>

\* .map(callback), one element
DecMapStep ==
    /\ IsArrayTask /\ decPc = "map" /\ decI < Len(MapSource)
    /\ decAcc' = Append(decAcc, MapCallback(MapSource[decI + 1]))
    /\ decI' = decI + 1
    /\ UNCHANGED <<task, input, impPc, impI, impResult, decPc, decFiltered, trace, heap>>

\* map() returns
DecMapReturn ==
    /\ IsArrayTask /\ decPc = "map" /\ decI = Len(MapSource)
    /\ decPc' = "done"
    /\ UNCHANGED <<task, input, impPc, impI, impResult, decI, decFiltered, decAcc, trace, heap>>

\* groupData.declarative, one call of the reducer
DecGroupStep ==
    /\ task = "groupData" /\ decPc = "reduce" /\ decI < Len(input)
    /\ LET rec == input[decI + 1]
           r == GroupValue(heap, decAcc, rec.discount, rec.code)
       IN IF r.threw
          THEN /\ decPc' = "threw"
               /\ UNCHANGED <<decI, decAcc, heap>>
          ELSE /\ decAcc' = DefineOwn(decAcc, rec.discount, r.value)
               /\ heap' = r.heap
               /\ decI' = decI + 1
               /\ UNCHANGED decPc
    /\ UNCHANGED <<task, input, impPc, impI, impResult, decFiltered, trace>>

\* count.declarative, one call of the reducer
DecCountStep ==
    /\ task = "count" /\ decPc = "reduce" /\ decI < Len(input)
    /\ LET code == input[decI + 1].code
       IN decAcc' = DefineOwn(decAcc, code, CountValue(decAcc, code))
    /\ decI' = decI + 1
    /\ UNCHANGED <<task, input, impPc, impI, impResult, decPc, decFiltered, trace, heap>>

\* the top-level reduce with initial value "", one call of the reducer
ReduceInitialStep ==
    /\ task = "reduceInitial" /\ decPc = "reduce" /\ decI < Len(input)
    /\ decAcc' = Reducer(decAcc, input[decI + 1])
    /\ trace' = Append(trace, decAcc')
    /\ decI' = decI + 1
    /\ UNCHANGED <<task, input, impPc, impI, impResult, decPc, decFiltered, heap>>

\* reduce() returns the last previousValue
DecReduceReturn ==
    /\ decPc = "reduce" /\ decI = Len(input)
    /\ decPc' = "done"
    /\ UNCHANGED <<task, input, impPc, impI, impResult, decI, decFiltered, decAcc, trace, heap>>

Next ==
    \/ ImpTransformStep
    \/ ImpFilterStep
    \/ ImpGroupStep
    \/ ImpCountStep
    \/ ImpReturn
    \/ DecFilterStep
    \/ DecFilterReturn
    \/ DecMapStep
    \/ DecMapReturn
    \/ DecGroupStep
    \/ DecCountStep
    \/ ReduceInitialStep
    \/ DecReduceReturn

Spec == Init /\ [][Next]_vars

-----------------------------------------------------------------------------
(* Vocabulary of the properties.                                           *)

Occurrences(s, x) == Cardinality({i \in DOMAIN s : s[i] = x})

\* s with every element upper-cased, position by position
UpperAll(s) == [i \in 1..Len(s) |-> ToUpperCase(s[i])]

\* the codes of the first n records that carry discount d, in input order
CodesWith(n, d) ==
    LET sel == SelectSeq(SubSeq(input, 1, n), LAMBDA r : r.discount = d)
    IN [i \in 1..Len(sel) |-> sel[i].code]

\* how often code c stands in the value sequence obj holds under key d
OccurrencesUnder(obj, d, c) ==
    IF d \in DOMAIN obj /\ obj[d].type = "array"
    THEN Occurrences(heap[obj[d].num], c)
    ELSE 0

RECURSIVE SumOver(_, _)
SumOver(obj, keys) ==
    IF keys = {} THEN 0
    ELSE LET k == CHOOSE x \in keys : TRUE
         IN obj[k].num + SumOver(obj, keys \ {k})

\* every value of obj is a number and the numbers add up to n
CountsSumTo(obj, n) ==
    /\ \A k \in DOMAIN obj : obj[k].type = "number"
    /\ SumOver(obj, DOMAIN obj) = n

ImpEnded == impPc \in {"done", "threw"}
DecEnded == decPc \in {"done", "threw"}

\* what a caller can observe of an accumulator or result
View(x) == IF IsArrayTask \/ task = "reduceInitial" THEN x ELSE Deref(heap, x)

-----------------------------------------------------------------------------
(* C1 *)

\* C1: transformData.declarative returns an array as long as its input whose
\* element at every index is the input's element at that index upper-cased;
\* while map() runs, what it has built is that for the elements consumed.
UppercaseTransformCorrect ==
    task = "transformData" =>
        /\ decPc = "done" => Len(decAcc) = Len(input)
        /\ Len(decAcc) = decI
        /\ \A i \in 1..Len(decAcc) : decAcc[i] = ToUpperCase(input[i])

UppercaseTransformWitness ==
    /\ task = "transformData" /\ decPc = "done"
    /\ Len(input) >= 2
    /\ \E i \in 1..Len(input) : decAcc[i] # input[i]
    /\ \E i \in 1..Len(input) : Len(decAcc[i]) > Len(input[i])

(* C2 *)

\* C2: transformAndFilterData.declarative returns exactly the upper-cased
\* forms of the elements that start with "x", in their original order, and
\* never more elements than the input has.
FilterThenTransformCorrect ==
    (task = "transformAndFilterData" /\ decPc = "done") =>
        /\ decAcc = UpperAll(SelectSeq(input, LAMBDA e : StartsWith(e, PrefixX)))
        /\ Len(decAcc) <= Len(input)

FilterThenTransformWitness ==
    /\ task = "transformAndFilterData" /\ decPc = "done"
    /\ Len(decAcc) >= 2
    /\ Len(decAcc) < Len(input)
    /\ decAcc[1] # decAcc[2]

(* C3 *)

\* C3 as stated: in the returned grouping every code of the input stands in
\* exactly one value sequence, the one keyed by its discount.
GroupEachCodeUnderOneKey ==
    (task = "groupData" /\ decPc = "done") =>
        \A k \in DOMAIN input :
            {d \in DOMAIN decAcc : OccurrencesUnder(decAcc, d, input[k].code) > 0}
                = {input[k].discount}

\* C3 amended: after every processed prefix, and so in the returned grouping,
\* code c stands in the value sequence keyed d exactly as often as the prefix
\* has records with code c and discount d (never, when there is none), in
\* both variants.
GroupCodeOccurrences ==
    task = "groupData" =>
        \A c \in {input[k].code : k \in DOMAIN input} :
            \A d \in {input[k].discount : k \in DOMAIN input} :
                /\ OccurrencesUnder(impResult, d, c)
                      = Cardinality({k \in 1..impI : input[k] = [code |-> c, discount |-> d]})
                /\ OccurrencesUnder(decAcc, d, c)
                      = Cardinality({k \in 1..decI : input[k] = [code |-> c, discount |-> d]})

GroupCodeOccurrencesWitness ==
    /\ task = "groupData" /\ impPc = "done" /\ decPc = "done"
    /\ \E c \in {input[k].code : k \in DOMAIN input} :
          /\ OccurrencesUnder(decAcc, "1", c) = 2
          /\ OccurrencesUnder(decAcc, "2", c) = 1
          /\ OccurrencesUnder(impResult, "1", c) = 2

(* C4 *)

\* C4: in count, after every processed prefix (and so on return) the counts
\* of the mapping add up to the number of records processed.
CountSumEqualsProcessed ==
    task = "count" =>
        /\ CountsSumTo(impResult, impI)
        /\ CountsSumTo(decAcc, decI)

(* C5 *)

\* C5: groupData returns a mapping whose keys are exactly the discounts of
\* the input and whose value under d is the codes of the records with
\* discount d, in input order, repeated codes kept.
GroupReturnsCodesPerDiscount ==
    task = "groupData" =>
        /\ ImpEnded =>
              /\ impPc = "done"
              /\ DOMAIN impResult = {input[k].discount : k \in DOMAIN input}
              /\ \A d \in DOMAIN impResult :
                    Deref(heap, impResult)[d] = CodesWith(Len(input), d)
        /\ DecEnded =>
              /\ decPc = "done"
              /\ DOMAIN decAcc = {input[k].discount : k \in DOMAIN input}
              /\ \A d \in DOMAIN decAcc :
                    Deref(heap, decAcc)[d] = CodesWith(Len(input), d)

(* C6 *)

\* C6: no step of any variant changes the input array or one of its records,
\* and an array once built for a grouping is never modified afterwards: a
\* longer value sequence is always a new array.
NoMutation ==
    [][ /\ input' = input
        /\ \A a \in DOMAIN heap : a \in DOMAIN heap' /\ heap'[a] = heap[a] ]_vars

NoMutationWitness ==
    /\ task = "groupData" /\ impPc = "done" /\ decPc = "done"
    /\ Len(input) = MaxLen
    /\ \E a \in DOMAIN heap : Len(heap[a]) = MaxLen

(* C7 *)

\* C7 as stated: the records of lines 133-139 group to
\* {"1": ["A","C","E","F"], "2": ["B","E"]}.
GroupExampleAsStated ==
    (task = "groupData" /\ input = GroupExampleInput /\ decPc = "done") =>
        View(decAcc) = ("1" :> <<"A", "C", "E", "F">>) @@ ("2" :> <<"B", "E">>)

\* C7 amended: the records of lines 133-139 group to
\* {"1": ["A","C","F"], "2": ["B","E"]}, in both variants, and neither throws.
GroupExampleResult ==
    (task = "groupData" /\ input = GroupExampleInput) =>
        LET expected == ("1" :> <<"A", "C", "F">>) @@ ("2" :> <<"B", "E">>)
        IN /\ impPc # "threw" /\ decPc # "threw"
           /\ impPc = "done" => View(impResult) = expected
           /\ decPc = "done" => View(decAcc) = expected

GroupExampleWitness ==
    /\ task = "groupData" /\ input = GroupExampleInput
    /\ impPc = "done" /\ decPc = "done"

(* C8 *)

\* C8: as the comment of line 109 has it, ["x", "y", "z"] is turned into
\* ["Y", "Z"] by both variants of transformAndFilterData.
FilterExampleAsDocumented ==
    (task = "transformAndFilterData" /\ input = XyzInput) =>
        /\ impPc = "done" => impResult = << <<89>>, <<90>> >>
        /\ decPc = "done" => decAcc = << <<89>>, <<90>> >>

(* C9 *)

\* C9: as the comment of lines 78-84 has it, the reduce of line 74 runs four
\* iterations that return 1, 3, 6 and 10, and its result is 10.
ReduceExampleAsDocumented ==
    (task = "reduceInitial" /\ input = ReduceExampleInput /\ decPc = "done") =>
        /\ trace = <<Num(1), Num(3), Num(6), Num(10)>>
        /\ decAcc = Num(10)

(* C10 *)

\* C10: the imperative and the declarative variant of a task end the same
\* way with equal results, and in groupData and count their accumulators
\* are equal whenever both have processed the same prefix.
VariantsAgree ==
    task # "reduceInitial" =>
        /\ (ImpEnded /\ DecEnded) =>
              /\ impPc = decPc
              /\ impPc = "done" => View(impResult) = View(decAcc)
        /\ (task \in {"groupData", "count"} /\ impI = decI) =>
              View(impResult) = View(decAcc)

====
